---- MODULE Spec2Model ----
(***************************************************************************)
(* A model of GoGame/GoBackend.py: the Go rules engine (board geometry,    *)
(* flood fill, capture, the play_move transition with ko, legal moves,     *)
(* area scoring, liberties and ko inference from two boards).              *)
(*                                                                         *)
(* A board is a function from the flat coordinates 0 .. NN-1 to cell       *)
(* symbols (the Python string indexed from 0).  A Position is the pair of  *)
(* variables board, ko.  Python's None is modelled by None (-1) where a    *)
(* coordinate is expected and by NoColor where a colour is expected.       *)
(***************************************************************************)
EXTENDS Integers, Sequences, FiniteSets, TLC

\* ------------------------------------------------------------------------
\* Geometry
\* ------------------------------------------------------------------------

\* Board dimension, as configured by set_size(3).
N == 3

NN == N * N

\* Exploration bound: a stone is only placed while fewer than MaxStones
\* stones are on the board.
MaxStones == 8

WHITE == "O"

BLACK == "X"

EMPTY == "."

\* The neutral marker written by score and get_liberties on their scratch board.
NEUTRAL == "?"

\* Python None, as a coordinate.
None == 0 - 1

\* Python None, as a colour.
NoColor == "None"

Points == 0 .. (NN - 1)

Colors == {BLACK, WHITE}

EMPTY_BOARD == [p \in Points |-> EMPTY]

swap_colors(color) ==
    IF color = BLACK THEN WHITE
    ELSE IF color = WHITE THEN BLACK
    ELSE color

flatten(c) == N * c[1] + c[2]

unflatten(fc) == <<fc \div N, fc % N>>

is_on_board(c) == c[1] % N = c[1] /\ c[2] % N = c[2]

get_valid_neighbors(fc) ==
    LET x == unflatten(fc)[1]
        y == unflatten(fc)[2]
        possible_neighbors == << <<x + 1, y>>, <<x - 1, y>>, <<x, y + 1>>, <<x, y - 1>> >>
        on_board == SelectSeq(possible_neighbors, is_on_board)
    IN  [i \in 1 .. Len(on_board) |-> flatten(on_board[i])]

\* Neighbors are indexed by flat coordinates; each entry is an ordered list.
NEIGHBORS == [fc \in Points |-> get_valid_neighbors(fc)]

\* The elements of a list.
Elems(s) == {s[i] : i \in 1 .. Len(s)}

\* ------------------------------------------------------------------------
\* Region finder
\* ------------------------------------------------------------------------

\* One run of the while loop of find_reached: frontier is the Python list
\* used as a stack (pop takes the last element); visited records the points
\* in the order they were popped.
RECURSIVE find_reached_loop(_, _, _, _, _, _)
find_reached_loop(board, color, chain, reached, frontier, visited) ==
    IF frontier = <<>>
    THEN [chain |-> chain, reached |-> reached, visited |-> visited]
    ELSE LET current_fc == frontier[Len(frontier)]
             rest == SubSeq(frontier, 1, Len(frontier) - 1)
             chain1 == chain \cup {current_fc}
             Same(fn) == board[fn] = color /\ fn \notin chain1
             pushed == SelectSeq(NEIGHBORS[current_fc], Same)
             hit == {fn \in Elems(NEIGHBORS[current_fc]) : board[fn] # color}
         IN  find_reached_loop(board, color, chain1, reached \cup hit,
                               rest \o pushed, Append(visited, current_fc))

\* Variant of find_reached: line 54 is a plain else, so a neighbour of the
\* chain's colour that is already in the chain lands in reached.
RECURSIVE find_reached_loop_else(_, _, _, _, _, _)
find_reached_loop_else(board, color, chain, reached, frontier, visited) ==
    IF frontier = <<>>
    THEN [chain |-> chain, reached |-> reached, visited |-> visited]
    ELSE LET current_fc == frontier[Len(frontier)]
             rest == SubSeq(frontier, 1, Len(frontier) - 1)
             chain1 == chain \cup {current_fc}
             Same(fn) == board[fn] = color /\ fn \notin chain1
             pushed == SelectSeq(NEIGHBORS[current_fc], Same)
             hit == {fn \in Elems(NEIGHBORS[current_fc]) : ~ Same(fn)}
         IN  find_reached_loop_else(board, color, chain1, reached \cup hit,
                                    rest \o pushed, Append(visited, current_fc))

find_reached_else(board, fc) ==
    find_reached_loop_else(board, board[fc], {fc}, {}, <<fc>>, <<>>)

find_reached(board, fc) ==
    find_reached_loop(board, board[fc], {fc}, {}, <<fc>>, <<>>)

\* ------------------------------------------------------------------------
\* Capture engine
\* ------------------------------------------------------------------------

place_stone(color, board, fc) == [board EXCEPT ![fc] = color]

bulk_place_stones(color, board, stones) ==
    [p \in Points |-> IF p \in stones THEN color ELSE board[p]]

\* Variant of maybe_capture_stones: only the stone at fc is taken off, not
\* its chain.
maybe_capture_stones_single(board, fc) ==
    LET r == find_reached(board, fc)
    IN  IF ~ \E fr \in r.reached : board[fr] = EMPTY
        THEN [board |-> bulk_place_stones(EMPTY, board, {fc}), captured |-> {fc}]
        ELSE [board |-> board, captured |-> {}]

\* Variant of maybe_capture_stones: only the neighbours of fc itself are
\* looked at for an empty point, not the border of its whole chain.
maybe_capture_stones_own_neighbors(board, fc) ==
    LET r == find_reached(board, fc)
    IN  IF ~ \E fr \in Elems(NEIGHBORS[fc]) : board[fr] = EMPTY
        THEN [board |-> bulk_place_stones(EMPTY, board, r.chain), captured |-> r.chain]
        ELSE [board |-> board, captured |-> {}]

maybe_capture_stones(board, fc) ==
    LET r == find_reached(board, fc)
    IN  IF ~ \E fr \in r.reached : board[fr] = EMPTY
        THEN [board |-> bulk_place_stones(EMPTY, board, r.chain), captured |-> r.chain]
        ELSE [board |-> board, captured |-> {}]

is_koish(board, fc) ==
    IF board[fc] # EMPTY THEN NoColor
    ELSE LET neighbor_colors == {board[fn] : fn \in Elems(NEIGHBORS[fc])}
         IN  IF Cardinality(neighbor_colors) = 1 /\ EMPTY \notin neighbor_colors
             THEN CHOOSE c \in neighbor_colors : TRUE
             ELSE NoColor

\* list(captured): the elements of a set as a list.  The order Python gives
\* them is not specified; the callers below only use the length of the
\* result and, when the length is 1, its single element.
RECURSIVE SetToList(_)
SetToList(S) ==
    IF S = {} THEN <<>>
    ELSE LET m == CHOOSE x \in S : \A y \in S : x <= y
         IN  <<m>> \o SetToList(S \ {m})

\* ------------------------------------------------------------------------
\* Position.play_move
\* ------------------------------------------------------------------------

\* Variant of IllegalMove: the ko point is not looked at.
IllegalMove_occupied_only(board, ko, fc) == board[fc] # EMPTY

\* Variant of IllegalMove: the ko is tested for truth first, as
\* get_legal_moves does, so a ko at coordinate 0 counts as no ko.
IllegalMove_truthy_ko(board, ko, fc) ==
    (ko # None /\ ko # 0 /\ fc = ko) \/ board[fc] # EMPTY

\* The test of line 162: the move is rejected with IllegalMove.
IllegalMove(board, ko, fc) == fc = ko \/ board[fc] # EMPTY

\* Lines 170-177: the neighbours of fc of the opponent's colour.
opp_stones_of(new_board, fc, opp_color) ==
    LET Opp(fn) == new_board[fn] = opp_color
    IN  SelectSeq(NEIGHBORS[fc], Opp)

\* Variant of my_stones_of: fc itself is left out, as in play_move_incomplete.
my_stones_of_neighbors_only(new_board, fc, color) ==
    LET Mine(fn) == new_board[fn] = color
    IN  SelectSeq(NEIGHBORS[fc], Mine)

\* Lines 171-175: fc, then its neighbours of the mover's colour.
my_stones_of(new_board, fc, color) ==
    LET Mine(fn) == new_board[fn] = color
    IN  <<fc>> \o SelectSeq(NEIGHBORS[fc], Mine)

\* Variant of capture_opp_stones: the loop stops after the first stone.
capture_opp_stones_first_only(new_board, opp_stones, i, opp_captured) ==
    IF Len(opp_stones) = 0
    THEN [board |-> new_board, opp_captured |-> opp_captured]
    ELSE LET r == maybe_capture_stones(new_board, opp_stones[1])
         IN  [board |-> r.board, opp_captured |-> SetToList(r.captured)]

\* The loop of lines 179-182 from index i on.
RECURSIVE capture_opp_stones(_, _, _, _)
capture_opp_stones(new_board, opp_stones, i, opp_captured) ==
    IF i > Len(opp_stones)
    THEN [board |-> new_board, opp_captured |-> opp_captured]
    ELSE LET r == maybe_capture_stones(new_board, opp_stones[i])
         IN  capture_opp_stones(r.board, opp_stones, i + 1,
                                opp_captured \o SetToList(r.captured))

\* The loop of lines 184-185 from index i on.
RECURSIVE capture_my_stones(_, _, _)
capture_my_stones(new_board, my_stones, i) ==
    IF i > Len(my_stones)
    THEN new_board
    ELSE capture_my_stones(maybe_capture_stones(new_board, my_stones[i]).board,
                           my_stones, i + 1)

\* Variant of new_ko_of: the colour around fc is not looked at.
new_ko_of_ignore_koish(opp_captured, possible_ko_color, opp_color) ==
    IF Len(opp_captured) = 1
    THEN opp_captured[1]
    ELSE None

\* Variant of new_ko_of: no ko is ever set.
new_ko_of_none(opp_captured, possible_ko_color, opp_color) == None

\* Variant of new_ko_of: any capture next to a koish point makes a ko.
new_ko_of_any_capture(opp_captured, possible_ko_color, opp_color) ==
    IF Len(opp_captured) >= 1 /\ possible_ko_color = opp_color
    THEN opp_captured[1]
    ELSE None

\* Lines 187-190.
new_ko_of(opp_captured, possible_ko_color, opp_color) ==
    IF Len(opp_captured) = 1 /\ possible_ko_color = opp_color
    THEN opp_captured[1]
    ELSE None

\* Variant of play_move: the loop over my_stones runs before the loop over
\* opp_stones.
play_move_self_first(board, fc, color) ==
    LET possible_ko_color == is_koish(board, fc)
        placed == place_stone(color, board, fc)
        opp_color == swap_colors(color)
        opp_stones == opp_stones_of(placed, fc, opp_color)
        my_stones == my_stones_of(placed, fc, color)
        mine == capture_my_stones(placed, my_stones, 1)
        opp == capture_opp_stones(mine, opp_stones, 1, <<>>)
    IN  [board |-> opp.board,
         ko |-> new_ko_of(opp.opp_captured, possible_ko_color, opp_color)]

\* Lines 166-192: the Position returned by a move that is not rejected.
play_move(board, fc, color) ==
    LET possible_ko_color == is_koish(board, fc)
        placed == place_stone(color, board, fc)
        opp_color == swap_colors(color)
        opp_stones == opp_stones_of(placed, fc, opp_color)
        my_stones == my_stones_of(placed, fc, color)
        opp == capture_opp_stones(placed, opp_stones, 1, <<>>)
        new_board == capture_my_stones(opp.board, my_stones, 1)
    IN  [board |-> new_board,
         ko |-> new_ko_of(opp.opp_captured, possible_ko_color, opp_color)]

\* ------------------------------------------------------------------------
\* Position.get_legal_moves
\* ------------------------------------------------------------------------

\* Python truth value of an optional coordinate: None and 0 are false.
Truthy(x) == x # None /\ x # 0

\* The returned list, indexed from 0 like the Python list.
get_legal_moves(board, ko) ==
    LET legal == [x \in Points |-> IF board[x] = EMPTY THEN 1 ELSE 0]
    IN  IF Truthy(ko) THEN [legal EXCEPT ![ko] = 0] ELSE legal

\* ------------------------------------------------------------------------
\* find_ko_from_boards
\* ------------------------------------------------------------------------

\* str.index / the first i of a range: the least index where P holds.
FirstIndex(b, sym) == CHOOSE i \in Points : b[i] = sym /\ \A j \in Points : b[j] = sym => i <= j

find_move(board1, board2) ==
    LET changed == {i \in Points : board1[i] = "." /\ board2[i] # "."}
    IN  IF changed = {} THEN None
        ELSE CHOOSE i \in changed : \A j \in changed : i <= j

find_ko_from_boards(board1, board2) ==
    LET move == find_move(board1, board2)
    IN  IF ~ Truthy(move) THEN None
        ELSE LET captured == maybe_capture_stones(board1, move).captured
             IN  IF is_koish(board1, move) # NoColor /\ Cardinality(captured) = 1
                 THEN CHOOSE fc \in captured : TRUE
                 ELSE None

\* ------------------------------------------------------------------------
\* Position.score
\* ------------------------------------------------------------------------

Count(b, sym) == Cardinality({p \in Points : b[p] = sym})

\* Variant of EmptyBoardScore: the komi is subtracted on the empty board too.
EmptyBoardScore_komi == 0 - 0 - 1

\* Line 201: the value returned when the first empty region has no border.
EmptyBoardScore == 0

\* Variant of region_fill: the region goes to the colour of the first border
\* point without looking at the others.
region_fill_first(b, borders, first) == b[first]

\* Lines 202-208: the symbol an empty region is filled with, first being
\* list(borders)[0].
region_fill(b, borders, first) ==
    LET possible_border_color == b[first]
    IN  IF \A fb \in borders : b[fb] = possible_border_color
        THEN possible_border_color
        ELSE NEUTRAL

\* The while loop of score on the scratch board b.  list(borders)[0] is
\* whichever element the set yields first, so every element of borders is
\* tried: the value is the set of results score can return.
RECURSIVE score_loop(_)
score_loop(b) ==
    IF \A p \in Points : b[p] # EMPTY
    THEN {Count(b, BLACK) - Count(b, WHITE) - 1}
    ELSE LET fempty == FirstIndex(b, EMPTY)
             r == find_reached(b, fempty)
             empties == r.chain
             borders == r.reached
             Filled(first) == bulk_place_stones(region_fill(b, borders, first), b, empties)
         IN  IF Cardinality(borders) = 0
             THEN {EmptyBoardScore}
             ELSE UNION {score_loop(nb) : nb \in {Filled(first) : first \in borders}}

score(board) == score_loop(board)

\* ------------------------------------------------------------------------
\* Position.get_liberties
\* ------------------------------------------------------------------------

\* Variant of count_liberties: every border point counts.
count_liberties_all(b, borders) == Cardinality(borders)

\* Line 218: the number of border points that are empty.
count_liberties(b, borders) == Cardinality({fb \in borders : b[fb] = EMPTY})

\* The while loop of get_liberties for one colour; liberties is the
\* bytearray (indexed from 0), b the scratch board.
RECURSIVE liberties_loop(_, _, _)
liberties_loop(b, liberties, color) ==
    IF \E p \in Points : b[p] = color
    THEN LET fc == FirstIndex(b, color)
             r == find_reached(b, fc)
             stones == r.chain
             borders == r.reached
             num_libs == count_liberties(b, borders)
         IN  liberties_loop(bulk_place_stones(NEUTRAL, b, stones),
                            [p \in Points |-> IF p \in stones THEN num_libs ELSE liberties[p]],
                            color)
    ELSE [board |-> b, liberties |-> liberties]

get_liberties(board) ==
    LET white == liberties_loop(board, [p \in Points |-> 0], WHITE)
        black == liberties_loop(white.board, white.liberties, BLACK)
    IN  black.liberties

\* ------------------------------------------------------------------------
\* State
\* ------------------------------------------------------------------------

VARIABLES
    board,      \* board of the Position the caller holds
    ko,         \* ko of the Position the caller holds (None or a coordinate)
    outcome,    \* the last call and how it ended; "idle" when none is pending
    lastFc,     \* coordinate argument of the pending play_move, else None
    lastColor,  \* colour argument of the pending play_move, else NoColor
    newBoard,   \* board of the Position returned by play_move
    newKo,      \* ko of the Position returned by play_move
    result      \* value returned by a query (score, liberties, ...), else None

vars == <<board, ko, outcome, lastFc, lastColor, newBoard, newKo, result>>

Stones(b) == Cardinality({p \in Points : b[p] # EMPTY})

NoCall ==
    /\ outcome = "idle"
    /\ lastFc = None
    /\ lastColor = NoColor
    /\ newBoard = board
    /\ newKo = ko
    /\ result = None

\* Position.initial_state()
Init ==
    /\ board = EMPTY_BOARD
    /\ ko = None
    /\ NoCall

\* Position.set_board(board, ko) with any board and no ko.
InitAny ==
    /\ board \in [Points -> {EMPTY, BLACK, WHITE}]
    /\ ko = None
    /\ NoCall

\* Position.play_move(fc, color) called on the Position held: it raises
\* IllegalMove or returns a new Position; the Position it is called on is a
\* tuple and stays as it is.
PlayMove(fc, color) ==
    /\ outcome = "idle"
    /\ lastFc' = fc
    /\ lastColor' = color
    /\ result' = None
    /\ UNCHANGED <<board, ko>>
    /\ IF IllegalMove(board, ko, fc)
       THEN /\ outcome' = "IllegalMove"
            /\ UNCHANGED <<newBoard, newKo>>
       ELSE /\ Stones(board) < MaxStones
            /\ LET p == play_move(board, fc, color)
               IN  /\ newBoard' = p.board
                   /\ newKo' = p.ko
            /\ outcome' = "played"

\* Position.get_legal_moves()
GetLegalMoves ==
    /\ outcome = "idle"
    /\ outcome' = "get_legal_moves"
    /\ result' = get_legal_moves(board, ko)
    /\ UNCHANGED <<board, ko, lastFc, lastColor, newBoard, newKo>>

\* Position.score()
Score ==
    /\ outcome = "idle"
    /\ outcome' = "score"
    /\ \E s \in score(board) : result' = s
    /\ UNCHANGED <<board, ko, lastFc, lastColor, newBoard, newKo>>

\* Variant of GetLiberties: the '?' marks are written on the board of the
\* Position itself instead of on a copy.
GetLiberties_in_place ==
    /\ outcome = "idle"
    /\ outcome' = "get_liberties"
    /\ result' = get_liberties(board)
    /\ board' = liberties_loop(liberties_loop(board, [p \in Points |-> 0], WHITE).board,
                               [p \in Points |-> 0], BLACK).board
    /\ newBoard' = board'
    /\ UNCHANGED <<ko, lastFc, lastColor, newKo>>

\* Position.get_liberties()
GetLiberties ==
    /\ outcome = "idle"
    /\ outcome' = "get_liberties"
    /\ result' = get_liberties(board)
    /\ UNCHANGED <<board, ko, lastFc, lastColor, newBoard, newKo>>

\* find_reached(board, fc) on the board of the Position held; the result
\* carries chain and reached, and the order in which points were popped.
FindReached(fc) ==
    /\ outcome = "idle"
    /\ outcome' = "find_reached"
    /\ lastFc' = fc
    /\ result' = find_reached(board, fc)
    /\ UNCHANGED <<board, ko, lastColor, newBoard, newKo>>

\* maybe_capture_stones(board, fc) on the board of the Position held.
MaybeCaptureStones(fc) ==
    /\ outcome = "idle"
    /\ outcome' = "maybe_capture_stones"
    /\ lastFc' = fc
    /\ result' = maybe_capture_stones(board, fc)
    /\ UNCHANGED <<board, ko, lastColor, newBoard, newKo>>

\* find_ko_from_boards(before, after) on the boards of the Position held and
\* of the Position play_move has just returned.
FindKoFromBoards ==
    /\ outcome = "played"
    /\ outcome' = "find_ko_from_boards"
    /\ result' = find_ko_from_boards(board, newBoard)
    /\ UNCHANGED <<board, ko, lastFc, lastColor, newBoard, newKo>>

\* The caller goes on: with the Position play_move returned if there is one,
\* else with the Position it held.
Continue ==
    /\ outcome # "idle"
    /\ board' = newBoard
    /\ ko' = newKo
    /\ outcome' = "idle"
    /\ lastFc' = None
    /\ lastColor' = NoColor
    /\ newBoard' = newBoard
    /\ newKo' = newKo
    /\ result' = None

Next ==
    \/ \E fc \in Points, color \in Colors : PlayMove(fc, color)
    \/ GetLegalMoves
    \/ Score
    \/ GetLiberties
    \/ FindKoFromBoards
    \/ \E fc \in Points : FindReached(fc)
    \/ \E fc \in Points : MaybeCaptureStones(fc)
    \/ Continue

\* Games played from initial_state().
Spec == Init /\ [][Next]_vars

\* ------------------------------------------------------------------------
\* The loops of find_reached, score and get_liberties, one iteration a step.
\* While a loop runs, outcome names it and result holds its local variables.
\* ------------------------------------------------------------------------

\* Variant of find_reached_body: the test `not fn in chain` of line 52 is
\* left out.
find_reached_body_no_chain_test(b, color, st) ==
    LET current_fc == st.frontier[Len(st.frontier)]
        rest == SubSeq(st.frontier, 1, Len(st.frontier) - 1)
        chain1 == st.chain \cup {current_fc}
        Same(fn) == b[fn] = color
        pushed == SelectSeq(NEIGHBORS[current_fc], Same)
        hit == {fn \in Elems(NEIGHBORS[current_fc]) : b[fn] # color}
    IN  [chain |-> chain1, reached |-> st.reached \cup hit,
         frontier |-> rest \o pushed, visited |-> Append(st.visited, current_fc)]

\* Lines 49-55: one iteration of the while loop of find_reached on its
\* local variables st.
find_reached_body(b, color, st) ==
    LET current_fc == st.frontier[Len(st.frontier)]
        rest == SubSeq(st.frontier, 1, Len(st.frontier) - 1)
        chain1 == st.chain \cup {current_fc}
        Same(fn) == b[fn] = color /\ fn \notin chain1
        pushed == SelectSeq(NEIGHBORS[current_fc], Same)
        hit == {fn \in Elems(NEIGHBORS[current_fc]) : b[fn] # color}
    IN  [chain |-> chain1, reached |-> st.reached \cup hit,
         frontier |-> rest \o pushed, visited |-> Append(st.visited, current_fc)]

\* Lines 44-47: find_reached(board, fc) is entered.
FindReachedEnter(fc) ==
    /\ outcome = "idle"
    /\ outcome' = "find_reached:while"
    /\ lastFc' = fc
    /\ result' = [chain |-> {fc}, reached |-> {}, frontier |-> <<fc>>, visited |-> <<>>]
    /\ UNCHANGED <<board, ko, lastColor, newBoard, newKo>>

\* Lines 48-55: the frontier is not empty, one more iteration.
FindReachedIterate ==
    /\ outcome = "find_reached:while"
    /\ result.frontier # <<>>
    /\ result' = find_reached_body(board, board[lastFc], result)
    /\ UNCHANGED <<board, ko, outcome, lastFc, lastColor, newBoard, newKo>>

\* Lines 48 and 56: the frontier is empty, find_reached returns.
FindReachedExit ==
    /\ outcome = "find_reached:while"
    /\ result.frontier = <<>>
    /\ outcome' = "find_reached"
    /\ result' = [chain |-> result.chain, reached |-> result.reached,
                  visited |-> result.visited]
    /\ UNCHANGED <<board, ko, lastFc, lastColor, newBoard, newKo>>

\* Line 195: score() is entered; result is the scratch board.
ScoreEnter ==
    /\ outcome = "idle"
    /\ outcome' = "score:while"
    /\ result' = board
    /\ UNCHANGED <<board, ko, lastFc, lastColor, newBoard, newKo>>

\* Lines 197-208 when the region has a border: the scratch board after one
\* iteration of the while loop, first being list(borders)[0].
score_body(b, first) ==
    LET r == find_reached(b, FirstIndex(b, EMPTY))
    IN  bulk_place_stones(region_fill(b, r.reached, first), b, r.chain)

\* Lines 196-208: an empty point is left, one more iteration; it returns 0
\* when the region has no border.
ScoreIterate ==
    /\ outcome = "score:while"
    /\ \E p \in Points : result[p] = EMPTY
    /\ LET borders == find_reached(result, FirstIndex(result, EMPTY)).reached
       IN  IF Cardinality(borders) = 0
           THEN /\ outcome' = "score"
                /\ result' = EmptyBoardScore
           ELSE /\ outcome' = outcome
                /\ \E first \in borders : result' = score_body(result, first)
    /\ UNCHANGED <<board, ko, lastFc, lastColor, newBoard, newKo>>

\* Lines 196 and 209: no empty point is left, score returns.
ScoreExit ==
    /\ outcome = "score:while"
    /\ \A p \in Points : result[p] # EMPTY
    /\ outcome' = "score"
    /\ result' = Count(result, BLACK) - Count(result, WHITE) - 1
    /\ UNCHANGED <<board, ko, lastFc, lastColor, newBoard, newKo>>

\* Lines 212-214: get_liberties() is entered; colors are the colours the
\* for loop has still to take, the first being the current one.
GetLibertiesEnter ==
    /\ outcome = "idle"
    /\ outcome' = "get_liberties:while"
    /\ result' = [board |-> board, liberties |-> [p \in Points |-> 0],
                  colors |-> <<WHITE, BLACK>>]
    /\ UNCHANGED <<board, ko, lastFc, lastColor, newBoard, newKo>>

\* Lines 216-221: one iteration of the while loop of get_liberties.
get_liberties_body(st) ==
    LET color == Head(st.colors)
        r == find_reached(st.board, FirstIndex(st.board, color))
        num_libs == count_liberties(st.board, r.reached)
    IN  [board |-> bulk_place_stones(NEUTRAL, st.board, r.chain),
         liberties |-> [p \in Points |-> IF p \in r.chain THEN num_libs ELSE st.liberties[p]],
         colors |-> st.colors]

\* Lines 215-221: a stone of the current colour is left, one more iteration.
GetLibertiesIterate ==
    /\ outcome = "get_liberties:while"
    /\ result.colors # <<>>
    /\ \E p \in Points : result.board[p] = Head(result.colors)
    /\ result' = get_liberties_body(result)
    /\ UNCHANGED <<board, ko, outcome, lastFc, lastColor, newBoard, newKo>>

\* Lines 214-215: no stone of the current colour is left, the for loop goes
\* to the next colour.
GetLibertiesNextColor ==
    /\ outcome = "get_liberties:while"
    /\ result.colors # <<>>
    /\ \A p \in Points : result.board[p] # Head(result.colors)
    /\ result' = [result EXCEPT !.colors = Tail(result.colors)]
    /\ UNCHANGED <<board, ko, outcome, lastFc, lastColor, newBoard, newKo>>

\* Line 222: both colours are done, get_liberties returns.
GetLibertiesExit ==
    /\ outcome = "get_liberties:while"
    /\ result.colors = <<>>
    /\ outcome' = "get_liberties"
    /\ result' = result.liberties
    /\ UNCHANGED <<board, ko, lastFc, lastColor, newBoard, newKo>>

NextLoops ==
    \/ \E fc \in Points : FindReachedEnter(fc)
    \/ FindReachedIterate
    \/ FindReachedExit
    \/ ScoreEnter
    \/ ScoreIterate
    \/ ScoreExit
    \/ GetLibertiesEnter
    \/ GetLibertiesIterate
    \/ GetLibertiesNextColor
    \/ GetLibertiesExit
    \/ Continue

\* The loops, step by step, on any board.
SpecLoops == InitAny /\ [][NextLoops]_vars

\* The queries on any board.
NextAny ==
    \/ Score
    \/ GetLiberties
    \/ \E fc \in Points : FindReached(fc)
    \/ \E fc \in Points : MaybeCaptureStones(fc)
    \/ Continue

SpecAny == InitAny /\ [][NextAny]_vars

TypeOK ==
    /\ board \in [Points -> {EMPTY, BLACK, WHITE}]
    /\ ko \in Points \cup {None}
    /\ newBoard \in [Points -> {EMPTY, BLACK, WHITE}]
    /\ newKo \in Points \cup {None}

\* ------------------------------------------------------------------------
\* Reference notions of Go, stated on the grid and not by flood fill
\* ------------------------------------------------------------------------

Abs(i) == IF i < 0 THEN 0 - i ELSE i

\* Two points one step apart in a row or in a column.
Adjacent(p, q) ==
    Abs((p \div N) - (q \div N)) + Abs((p % N) - (q % N)) = 1

Around(p) == {q \in Points : Adjacent(p, q)}

\* The least set that contains S and every point of the symbol sym next to it.
RECURSIVE Grow(_, _, _)
Grow(b, sym, S) ==
    LET T == S \cup {q \in Points : b[q] = sym /\ \E s \in S : Adjacent(s, q)}
    IN  IF T = S THEN S ELSE Grow(b, sym, T)

\* The maximal connected set of points of the symbol of b[p] that contains p.
ChainAt(b, p) == Grow(b, b[p], {p})

\* The points next to a set that are not in it.
BorderOf(S) == {q \in Points \ S : \E s \in S : Adjacent(s, q)}

\* The distinct empty points next to a set of points.
LibertiesOf(b, S) == {q \in BorderOf(S) : b[q] = EMPTY}

\* play_move has been called and has raised or returned.
Called == outcome \in {"IllegalMove", "played"}

\* The board right after the stone of the pending move is put down.
Placed == [board EXCEPT ![lastFc] = lastColor]

OppColor == IF lastColor = BLACK THEN WHITE ELSE BLACK

\* The opponent stones the pending move took off the board.
OppRemoved == {p \in Points : board[p] = OppColor /\ newBoard[p] # OppColor}

\* The chain of the stone just put down, before any capture.
PlacedChain == ChainAt(Placed, lastFc)

\* ------------------------------------------------------------------------
\* C1: play_move(fc, colour) signals IllegalMove if and only if fc is the ko
\* point of the position or board[fc] is not empty; any other move, a
\* suicide included, returns a new Position.
\* ------------------------------------------------------------------------
C1_IllegalIffKoOrOccupied ==
    Called =>
        /\ outcome = "IllegalMove" <=> (lastFc = ko \/ board[lastFc] # EMPTY)
        /\ outcome = "played" <=> (lastFc # ko /\ board[lastFc] = EMPTY)

\* A suicide that was played and not rejected: the stone put down had no
\* liberty and is gone from the returned board.
C1_Witness ==
    /\ outcome = "played"
    /\ LibertiesOf(Placed, PlacedChain) = {}
    /\ newBoard[lastFc] = EMPTY

\* ------------------------------------------------------------------------
\* C2: after a successful play_move(fc, colour) the new ko is a point K if
\* and only if exactly one opponent stone was removed from the board, it
\* stood at K, and before the move fc was empty with every neighbour of fc
\* holding the opponent's colour; otherwise the new ko is None.
\* ------------------------------------------------------------------------
C2_KoIffSingleCaptureAtKoishPoint ==
    outcome = "played" =>
        LET surrounded == /\ board[lastFc] = EMPTY
                          /\ \A n \in Around(lastFc) : board[n] = OppColor
        IN  /\ \A K \in Points :
                  newKo = K <=> (OppRemoved = {K} /\ surrounded)
            /\ newKo = None <=> ~ (Cardinality(OppRemoved) = 1 /\ surrounded)

\* A move that made a ko.
C2_Witness ==
    /\ outcome = "played"
    /\ newKo \in Points
    /\ OppRemoved = {newKo}

\* ------------------------------------------------------------------------
\* C3: in a position whose ko is K, play_move(K, c) fails with IllegalMove
\* for either colour; after a successful play_move elsewhere the ko of the
\* resulting position is not K, so K can be played there if it is still empty.
\* ------------------------------------------------------------------------
C3_KoLifecycle ==
    (Called /\ ko \in Points) =>
        /\ lastFc = ko => outcome = "IllegalMove"
        /\ outcome = "played" =>
              /\ newKo # ko
              /\ newBoard[ko] = EMPTY => ~ IllegalMove(newBoard, newKo, ko)

\* A move played elsewhere while a ko was in force, the ko point still empty.
C3_Witness ==
    /\ outcome = "played"
    /\ ko \in Points
    /\ lastFc # ko
    /\ newBoard[ko] = EMPTY

\* ------------------------------------------------------------------------
\* C4: after a successful play_move(fc, colour) every opponent chain next to
\* fc that has no empty neighbour once the stone is placed is removed whole,
\* and every other opponent stone is still on the board.
\* ------------------------------------------------------------------------

\* The opponent stones in a chain next to fc without a liberty after the
\* stone is put down.
Doomed ==
    UNION {ChainAt(Placed, n) : n \in {q \in Around(lastFc) :
              /\ board[q] = OppColor
              /\ LibertiesOf(Placed, ChainAt(Placed, q)) = {}}}

C4_CaptureCorrect ==
    outcome = "played" =>
        LET doomed == Doomed
        IN  \A p \in Points :
                board[p] = OppColor =>
                    newBoard[p] = (IF p \in doomed THEN EMPTY ELSE OppColor)

\* A move that took a chain of two or more stones (a corner stone among
\* them) while another opponent chain next to fc stayed on the board.
C4_Witness ==
    /\ outcome = "played"
    /\ Cardinality(Doomed) >= 2
    /\ \E p \in Doomed : Cardinality(Around(p)) = 2
    /\ \E q \in Around(lastFc) : board[q] = OppColor /\ q \notin Doomed
    /\ \A p \in Doomed : newBoard[p] = EMPTY

\* ------------------------------------------------------------------------
\* C5 (as claimed): when the stone put down has no liberty after placement
\* and no opponent stone is captured, the board of the resulting position
\* equals the board before the move.
\* ------------------------------------------------------------------------
Suicide ==
    /\ outcome = "played"
    /\ LibertiesOf(Placed, PlacedChain) = {}
    /\ OppRemoved = {}

C5_SuicideRestoresBoard ==
    Suicide => newBoard = board

\* C5 (amended): when the stone put down has no liberty after placement and
\* no opponent stone is captured, the whole chain of the placed stone is
\* removed: fc is empty again, the stones of the mover joined to fc are
\* empty too, and every point outside that chain keeps its value.
C5_SuicideRemovesChain ==
    Suicide =>
        /\ newBoard[lastFc] = EMPTY
        /\ newBoard = [p \in Points |-> IF p \in PlacedChain THEN EMPTY ELSE board[p]]
        /\ PlacedChain = {lastFc} => newBoard = board

\* A suicide of a chain of two or more stones.
C5_Witness ==
    /\ Suicide
    /\ Cardinality(PlacedChain) >= 2

\* ------------------------------------------------------------------------
\* C6: get_legal_moves()[fc] is 1 exactly when board[fc] is empty and fc is
\* not the ko point, that is exactly when play_move(fc, colour) does not
\* signal IllegalMove; this for every fc, 0 included.
\* ------------------------------------------------------------------------
C6_LegalMovesAgreeWithPlayMove ==
    outcome = "get_legal_moves" =>
        \A fc \in Points :
            /\ result[fc] \in {0, 1}
            /\ result[fc] = 1 <=> (board[fc] = EMPTY /\ fc # ko)
            /\ result[fc] = 1 <=> ~ IllegalMove(board, ko, fc)

\* ------------------------------------------------------------------------
\* C7: when play_move on a position produces ko = K, find_ko_from_boards on
\* the board before and the board after returns K.
\* ------------------------------------------------------------------------
C7_FindKoRoundTrip ==
    (outcome = "find_ko_from_boards" /\ newKo \in Points) => result = newKo

\* ------------------------------------------------------------------------
\* C8 (as claimed): score() of the all-empty position of initial_state()
\* is -1.
\* ------------------------------------------------------------------------
C8_EmptyBoardScoresMinusOne ==
    (outcome = "score" /\ board = EMPTY_BOARD) => result = 0 - 1

\* C8 (amended): score() of the all-empty position of initial_state() is 0;
\* no komi is subtracted when the board holds no stone.
C8_EmptyBoardScoresZero ==
    (outcome = "score" /\ board = EMPTY_BOARD) => result = 0

\* score() was called on the position of initial_state().
C8_Witness ==
    /\ outcome = "score"
    /\ board = EMPTY_BOARD
    /\ ko = None

\* ------------------------------------------------------------------------
\* C9: on a board with at least one stone score() is (Black stones + empty
\* points in empty regions bordered by Black only) - (the same for White)
\* - 1; regions bordering both colours count for nobody; a single Black
\* stone alone on the board scores NN - 1.
\* ------------------------------------------------------------------------

\* The colours of the stones next to the empty region of the empty point p.
BorderColors(b, p) == {b[q] : q \in BorderOf(ChainAt(b, p))}

Territory(b, color) ==
    {p \in Points : b[p] = EMPTY /\ BorderColors(b, p) = {color}}

Area(b, color) == Count(b, color) + Cardinality(Territory(b, color))

C9_AreaScore ==
    (outcome = "score" /\ Stones(board) >= 1) =>
        /\ result = Area(board, BLACK) - Area(board, WHITE) - 1
        /\ (Count(board, BLACK) = 1 /\ Count(board, WHITE) = 0) => result = NN - 1

\* score() was called on a board with territory of Black, territory of
\* White and an empty region that borders both colours.
C9_Witness ==
    /\ outcome = "score"
    /\ Territory(board, BLACK) # {}
    /\ Territory(board, WHITE) # {}
    /\ \E p \in Points : board[p] = EMPTY /\ BorderColors(board, p) = {BLACK, WHITE}

\* ------------------------------------------------------------------------
\* C10: get_liberties() returns NN values; a point with a stone carries the
\* number of distinct empty points next to the stone's chain, an empty point
\* carries 0; a lone stone on an empty board gets 4 (interior), 3 (edge) or
\* 2 (corner).
\* ------------------------------------------------------------------------

\* The number of board edges the point lies on.
EdgesAt(p) ==
    (IF p \div N \in {0, N - 1} THEN 1 ELSE 0) + (IF p % N \in {0, N - 1} THEN 1 ELSE 0)

C10_Liberties ==
    outcome = "get_liberties" =>
        /\ DOMAIN result = 0 .. (NN - 1)
        /\ \A p \in Points :
              result[p] = IF board[p] = EMPTY THEN 0
                          ELSE Cardinality(LibertiesOf(board, ChainAt(board, p)))
        /\ Stones(board) = 1 =>
              \A p \in Points : board[p] # EMPTY => result[p] = 4 - EdgesAt(p)

\* get_liberties() was called on a board with chains of both colours, one of
\* two or more stones, next to each other.
C10_Witness ==
    /\ outcome = "get_liberties"
    /\ \E p, q \in Points :
          /\ board[p] = BLACK
          /\ board[q] = WHITE
          /\ Adjacent(p, q)
          /\ Cardinality(ChainAt(board, p)) >= 2
          /\ result[p] >= 1
          /\ result[q] >= 1

\* ------------------------------------------------------------------------
\* C11: find_reached(board, fc) returns as chain exactly the maximal
\* connected set of points of the colour of board[fc] that contains fc
\* (empty counts as a colour), and as reached exactly the points next to a
\* chain point whose colour differs from the chain's; no point is in both.
\* ------------------------------------------------------------------------
C11_FindReachedChainAndBorder ==
    outcome = "find_reached" =>
        /\ result.chain = ChainAt(board, lastFc)
        /\ result.reached =
              {q \in Points : /\ board[q] # board[lastFc]
                              /\ \E s \in ChainAt(board, lastFc) : Adjacent(s, q)}
        /\ result.chain \cap result.reached = {}

\* find_reached was run on a chain of three or more points that bends, with
\* neighbours of both other symbols.
C11_Witness ==
    /\ outcome = "find_reached"
    /\ board[lastFc] = BLACK
    /\ Cardinality(result.chain) >= 3
    /\ \E p, q \in result.chain : (p \div N) # (q \div N) /\ (p % N) # (q % N)
    /\ \E p, q \in result.reached : board[p] = WHITE /\ board[q] = EMPTY

\* ------------------------------------------------------------------------
\* C12: during one call of find_reached each board point is taken from the
\* frontier and expanded at most once.
\* ------------------------------------------------------------------------
C12_VisitedAtMostOnce ==
    outcome = "find_reached" =>
        \A i, j \in 1 .. Len(result.visited) :
            result.visited[i] = result.visited[j] => i = j

\* ------------------------------------------------------------------------
\* C13: no operation changes the Position or board it is called on: a
\* play_move that raises IllegalMove leaves board and ko as they were, and so
\* do a successful play_move, score, get_liberties, find_reached and
\* maybe_capture_stones; the '?' mark of score and get_liberties never shows
\* up in the board of a Position.
\* ------------------------------------------------------------------------
IsBoard(b) == b \in [Points -> {EMPTY, BLACK, WHITE}]

C13_InputsNotMutated ==
    [][/\ outcome' # "idle" => (board' = board /\ ko' = ko)
       /\ outcome = "IllegalMove" => (board' = board /\ ko' = ko)
       /\ IsBoard(board')
       /\ IsBoard(newBoard')
       /\ outcome' = "maybe_capture_stones" => IsBoard(result'.board)]_vars

\* play_move raised IllegalMove on the ko point of a position with stones of
\* both colours.
C13_Witness ==
    /\ outcome = "IllegalMove"
    /\ ko \in Points
    /\ lastFc = ko
    /\ newBoard = board
    /\ newKo = ko
    /\ \E p, q \in Points : board[p] = BLACK /\ board[q] = WHITE

\* ------------------------------------------------------------------------
\* C14: the loops terminate.  Each iteration of the flood fill lowers a
\* measure that cannot go below 0 (a point popped for the first time lowers
\* the number of points not yet popped; a point popped again pushes nothing
\* and shortens the frontier), so the frontier empties; each iteration of
\* the score loop lowers the number of empty points of the scratch board,
\* each iteration of the get_liberties loop the number of its stone points.
\* ------------------------------------------------------------------------
FloodMeasure(st) ==
    (NN - Cardinality(Elems(st.visited))) * (4 * NN) + Len(st.frontier)

Unprocessed(b) == Count(b, WHITE) + Count(b, BLACK)

C14_LoopsTerminate ==
    [][/\ (outcome = "find_reached:while" /\ outcome' = "find_reached:while") =>
              /\ FloodMeasure(result') < FloodMeasure(result)
              /\ FloodMeasure(result') >= 0
       /\ (outcome = "score:while" /\ outcome' = "score:while") =>
              Count(result', EMPTY) < Count(result, EMPTY)
       /\ (outcome = "get_liberties:while" /\ outcome' = "get_liberties:while") =>
              IF result'.colors = result.colors
              THEN Unprocessed(result'.board) < Unprocessed(result.board)
              ELSE /\ Len(result'.colors) < Len(result.colors)
                   /\ result'.board = result.board]_vars

\* A flood fill has returned after popping some point more than once.
C14_Witness ==
    /\ outcome = "find_reached"
    /\ Len(result.visited) > Cardinality(result.chain)
    /\ \E p \in Points : board[p] # board[lastFc]

\* ------------------------------------------------------------------------
\* C15: opponent captures are resolved before self-capture is checked: when
\* a successful play_move(fc, colour) removes an opponent stone, or leaves an
\* opponent chain next to fc without a liberty, the stone placed at fc is on
\* the board of the resulting position.
\* ------------------------------------------------------------------------
C15_CapturingMoveKeepsStone ==
    outcome = "played" =>
        /\ OppRemoved # {} => newBoard[lastFc] = lastColor
        /\ Doomed # {} => (newBoard[lastFc] = lastColor /\ OppRemoved # {})

\* A capturing move whose stone had no liberty until the capture was made.
C15_Witness ==
    /\ outcome = "played"
    /\ OppRemoved # {}
    /\ LibertiesOf(Placed, PlacedChain) = {}
    /\ Cardinality(PlacedChain) >= 2
    /\ newBoard[lastFc] = lastColor

\* ------------------------------------------------------------------------
\* C16: in a successful play_move(fc, colour) a stone of the mover is removed
\* if and only if it is in the chain of the placed stone and that chain has
\* no empty neighbour once the opponent captures are resolved; then that
\* whole chain, fc included, is empty; every point that is neither fc nor in
\* a removed chain keeps its value.
\* ------------------------------------------------------------------------

\* The board after the stone is put down and the opponent captures are made.
AfterOppCaptures == [p \in Points |-> IF p \in Doomed THEN EMPTY ELSE Placed[p]]

SelfCaptured ==
    IF LibertiesOf(AfterOppCaptures, PlacedChain) = {} THEN PlacedChain ELSE {}

C16_OwnStonesFrame ==
    outcome = "played" =>
        LET self == SelfCaptured
            doomed == Doomed
        IN  /\ \A p \in Points :
                  Placed[p] = lastColor =>
                      newBoard[p] = (IF p \in self THEN EMPTY ELSE lastColor)
            /\ \A p \in Points \ ({lastFc} \cup self \cup doomed) :
                  newBoard[p] = board[p]

\* A move that removed a chain of the mover of two or more stones while
\* other stones of the mover stayed on the board.
C16_Witness ==
    /\ outcome = "played"
    /\ Cardinality(SelfCaptured) >= 2
    /\ \A p \in SelfCaptured : newBoard[p] = EMPTY
    /\ \E p \in Points : board[p] = lastColor /\ newBoard[p] = lastColor

\* ------------------------------------------------------------------------
\* C17: in every position reached from initial_state() by successful
\* play_move calls, in any order of colours, no chain has zero liberties:
\* get_liberties() is at least 1 at every point that holds a stone.
\* ------------------------------------------------------------------------
C17_NoChainWithoutLiberty ==
    outcome = "get_liberties" =>
        \A p \in Points :
            board[p] # EMPTY =>
                /\ result[p] >= 1
                /\ LibertiesOf(board, ChainAt(board, p)) # {}

\* get_liberties() on a position with one empty point left for two chains
\* of different colours.
C17_Witness ==
    /\ outcome = "get_liberties"
    /\ \E p, q \in Points :
          /\ board[p] = BLACK
          /\ board[q] = WHITE
          /\ result[p] = 1
          /\ result[q] = 1
          /\ LibertiesOf(board, ChainAt(board, p)) = LibertiesOf(board, ChainAt(board, q))

\* ------------------------------------------------------------------------
\* C18: in every reachable position the board has exactly NN cells, each
\* Empty, Black or White; the ko, when there is one, is a coordinate of the
\* board whose cell is empty and which is next to a one-stone chain of the
\* last mover that has the ko point as its only liberty.
\* ------------------------------------------------------------------------
KoShape(b, k, stones) ==
    /\ k \in Points
    /\ b[k] = EMPTY
    /\ \E s \in stones :
          /\ Adjacent(s, k)
          /\ b[s] \in Colors
          /\ ChainAt(b, s) = {s}
          /\ LibertiesOf(b, {s}) = {k}

C18_BoardAndKoWellFormed ==
    /\ DOMAIN board = 0 .. (NN - 1)
    /\ DOMAIN newBoard = 0 .. (NN - 1)
    /\ \A p \in Points : board[p] \in {EMPTY, BLACK, WHITE}
    /\ \A p \in Points : newBoard[p] \in {EMPTY, BLACK, WHITE}
    /\ ko # None => KoShape(board, ko, Points)
    /\ (outcome = "played" /\ newKo # None) =>
          (newBoard[lastFc] = lastColor /\ KoShape(newBoard, newKo, {lastFc}))

\* A move that made a ko on a board that already had one.
C18_Witness ==
    /\ outcome = "played"
    /\ ko \in Points
    /\ newKo \in Points
    /\ newKo # ko

\* ------------------------------------------------------------------------
\* C19: the ko rule prevents immediate repetition: if a successful move of
\* colour X from a position P removes an opponent stone, no successful reply
\* of the opponent gives a board equal to the board of P.  Stated on the
\* reply: when the opponent of X has just played from the position held and
\* got newBoard, no capturing move of X on newBoard leads to the position
\* held.
\* ------------------------------------------------------------------------

\* The points where a move of colour X on board b removes an opponent stone
\* and gives the position (b2, k2).
CapturesInto(b, X, b2, k2) ==
    {fc \in Points :
        /\ b[fc] = EMPTY
        /\ \E p \in Points : b[p] = swap_colors(X) /\ b2[p] # swap_colors(X)
        /\ LET q == play_move(b, fc, X)
           IN  q.board = b2 /\ q.ko = k2}

C19_NoImmediateRepetition ==
    outcome = "played" => CapturesInto(newBoard, OppColor, board, ko) = {}

\* A reply of the opponent right after a move of X that captured and set a
\* ko: the one-stone chain next to the ko is of X, the reply is by the other
\* colour.
C19_Witness ==
    /\ outcome = "played"
    /\ ko \in Points
    /\ KoShape(board, ko, {s \in Points : board[s] = OppColor})
    /\ newBoard # board

====
